---- MODULE Spec2Model ----
(***************************************************************************)
(* Model of src/lib/upi/qr-generator.ts: the UPI deep-link builder         *)
(* (buildUpiUri) and the QR symbol encoder (pickVersion, encodeDataByte,   *)
(* rsEncode, interleave, createMatrix, placeData, applyMask, qrToSvg,      *)
(* generateUpiQrCode).                                                     *)
(*                                                                         *)
(* Conventions.  A JavaScript string is a sequence of UTF-16 code units    *)
(* (integers).  A bit string is a sequence of 0/1.  JavaScript arrays are  *)
(* 0-based; the sequences of the model are 1-based, so a[i] of the source  *)
(* is a[i + 1] here.  A matrix is a function row -> (col -> cell) over     *)
(* 0..size-1, exactly the source's indices.                                *)
(***************************************************************************)
EXTENDS Integers, Sequences, FiniteSets, TLC

\* ------------------------------------------------------------------------
\* JavaScript primitives used by the source
\* ------------------------------------------------------------------------

Min(a, b) == IF a <= b THEN a ELSE b

\* the identity on arrays and strings: comparing f makes TLC tabulate a
\* function it would otherwise recompute at every application (the source's
\* arrays and strings are stored, not recomputed)
Eager(f) == IF f = f THEN f ELSE f

\* Math.max(...xs.map(f)) over a non-empty sequence of lengths
RECURSIVE MaxLenOf(_, _)
MaxLenOf(blocks, k) ==
    IF k > Len(blocks) THEN 0
    ELSE LET rest == MaxLenOf(blocks, k + 1)
         IN  IF Len(blocks[k]) >= rest THEN Len(blocks[k]) ELSE rest

\* a ^ b on non-negative integers, bit by bit
RECURSIVE BitXorRec(_, _)
BitXorRec(a, b) ==
    IF a = 0 THEN b
    ELSE IF b = 0 THEN a
    ELSE 2 * BitXorRec(a \div 2, b \div 2) + (((a % 2) + (b % 2)) % 2)

\* the same, by 4-bit table lookup for operands below 256 (the only
\* operands gfMul/rsEncode produce); larger operands take the bitwise path
Xor4 == [a \in 0..15 |-> [b \in 0..15 |-> BitXorRec(a, b)]]

BitXor(a, b) ==
    IF a < 256 /\ b < 256
    THEN 16 * Xor4[a \div 16][b \div 16] + Xor4[a % 16][b % 16]
    ELSE BitXorRec(a, b)

\* n.toString(2): the binary digits of n >= 0, most significant first
RECURSIVE ToBinary(_)
ToBinary(n) == IF n < 2 THEN <<n>> ELSE Append(ToBinary(n \div 2), n % 2)

\* '0'.repeat(n) for n >= 0
Zeros(n) == Eager([i \in 1..n |-> 0])

\* s.padStart(width, '0'): never shortens s
PadStart(s, width) == IF Len(s) >= width THEN s ELSE Zeros(width - Len(s)) \o s

\* n.toString(2).padStart(width, '0')
ToBits(n, width) == PadStart(ToBinary(n), width)

\* parseInt(bits, 2) of a non-empty bit string
RECURSIVE ParseBinary(_, _)
ParseBinary(bits, k) ==
    IF k = 0 THEN 0 ELSE 2 * ParseBinary(bits, k - 1) + bits[k]

\* bits.slice(from, to) with 0-based from (inclusive) and to (exclusive)
Slice(s, from, to) ==
    LET hi == Min(to, Len(s))
    IN  IF from >= hi THEN <<>> ELSE Eager([i \in 1..(hi - from) |-> s[from + i]])

\* ------------------------------------------------------------------------
\* UPI URI builder, lines 13-39
\* ------------------------------------------------------------------------

\* An optional parameter is a sequence of length <= 1: <<>> is undefined,
\* <<v>> is the value v.  A string is a sequence of UTF-16 code units.  An
\* amount is a whole number of hundredths (250.00 is 25000): the model
\* covers the amounts that have at most two decimals.
Undefined == <<>>
Some(v) == <<v>>

\* the unreserved set of encodeURIComponent: A-Z a-z 0-9 - _ . ! ~ * ' ( )
Unreserved(c) ==
    \/ c \in 65..90 \/ c \in 97..122 \/ c \in 48..57
    \/ c \in {45, 95, 46, 33, 126, 42, 39, 40, 41}

HexDigit(n) == IF n < 10 THEN 48 + n ELSE 55 + n

\* "%XX" for one byte
PctByte(b) == <<37, HexDigit(b \div 16), HexDigit(b % 16)>>

\* one code unit of the Basic Multilingual Plane (no surrogate): itself if
\* unreserved, else the percent-encoded bytes of its UTF-8 form
EncodeChar(c) ==
    IF Unreserved(c) THEN <<c>>
    ELSE IF c < 128 THEN PctByte(c)
    ELSE IF c < 2048 THEN PctByte(192 + (c \div 64)) \o PctByte(128 + (c % 64))
    ELSE PctByte(224 + (c \div 4096)) \o PctByte(128 + ((c \div 64) % 64))
            \o PctByte(128 + (c % 64))

RECURSIVE encodeURIComponent(_)
encodeURIComponent(str) ==
    IF str = <<>> THEN <<>>
    ELSE EncodeChar(Head(str)) \o encodeURIComponent(Tail(str))

\* the decimal digits of n >= 0 as characters
RECURSIVE Decimal(_)
Decimal(n) == IF n < 10 THEN <<48 + n>> ELSE Append(Decimal(n \div 10), 48 + (n % 10))

\* amount.toFixed(2) of an amount of `cents` hundredths
ToFixed2(cents) ==
    LET a == IF cents < 0 THEN -cents ELSE cents
    IN  (IF cents < 0 THEN <<45>> ELSE <<>>)
            \o Decimal(a \div 100) \o <<46>>
            \o <<48 + ((a \div 10) % 10), 48 + (a % 10)>>

\* JavaScript truthiness of an optional string: defined and not empty
Truthy(opt) == opt # Undefined /\ opt[1] # <<>>

\* AmountEmitted without "params.amount > 0"
AmountEmitted_TruthyOnly(amount) == amount # Undefined /\ amount[1] # 0

\* "params.amount && params.amount > 0"
AmountEmitted(amount) == amount # Undefined /\ amount[1] # 0 /\ amount[1] > 0

\* "params.currency ?? 'INR'"
CurrencyOrDefault(currency) ==
    IF currency = Undefined THEN <<73, 78, 82>> ELSE currency[1]

\* the value interpolated after "mc=": params.mcc as it is
MccValue(mcc) == mcc

\* the array `parts` when buildUpiUri reaches its return statement
UriParts(p) ==
    <<(<<117, 112, 105, 58, 47, 47, 112, 97, 121, 63, 112, 97, 61>>   \* upi://pay?pa=
            \o encodeURIComponent(p.vpa))>>
    \o (IF Truthy(p.payeeName)
        THEN <<(<<112, 110, 61>> \o encodeURIComponent(p.payeeName[1]))>>     \* pn=
        ELSE <<>>)
    \o (IF AmountEmitted(p.amount)
        THEN <<(<<97, 109, 61>> \o ToFixed2(p.amount[1]))>>                   \* am=
        ELSE <<>>)
    \o <<(<<99, 117, 61>> \o CurrencyOrDefault(p.currency))>>                 \* cu=
    \o (IF Truthy(p.note)
        THEN <<(<<116, 110, 61>> \o encodeURIComponent(p.note[1]))>>          \* tn=
        ELSE <<>>)
    \o (IF Truthy(p.mcc)
        THEN <<(<<109, 99, 61>> \o MccValue(p.mcc[1]))>>                      \* mc=
        ELSE <<>>)
    \o (IF Truthy(p.txnRefId)
        THEN <<(<<116, 114, 61>> \o encodeURIComponent(p.txnRefId[1]))>>      \* tr=
        ELSE <<>>)

\* parts.join('&')
RECURSIVE Join(_, _)
Join(parts, k) ==
    IF k > Len(parts) THEN <<>>
    ELSE IF k = Len(parts) THEN parts[k]
    ELSE parts[k] \o <<38>> \o Join(parts, k + 1)

buildUpiUri(p) == Join(UriParts(p), 1)

\* ------------------------------------------------------------------------
\* validateUpiId, lines 392-417
\* ------------------------------------------------------------------------

\* the characters String.prototype.trim removes: white space and line
\* terminators
WhiteSpace ==
    {9, 10, 11, 12, 13, 32, 160, 5760, 8232, 8233, 8239, 8287, 12288, 65279}
        \cup 8192..8202

RECURSIVE TrimStart(_)
TrimStart(str) ==
    IF str # <<>> /\ Head(str) \in WhiteSpace THEN TrimStart(Tail(str)) ELSE str

RECURSIVE TrimEnd(_)
TrimEnd(str) ==
    IF str # <<>> /\ str[Len(str)] \in WhiteSpace
    THEN TrimEnd(SubSeq(str, 1, Len(str) - 1))
    ELSE str

Trim(str) == TrimEnd(TrimStart(str))

\* (trimmed.match(/@/g) || []).length
AtCount(str) == Cardinality({i \in 1..Len(str) : str[i] = 64})

\* the character classes of the regex
IsLetter(c) == c \in 65..90 \/ c \in 97..122
IsAlnum(c) == IsLetter(c) \/ c \in 48..57
IsUserChar(c) == IsAlnum(c) \/ c \in {46, 95, 45}       \* [a-zA-Z0-9._-]

\* the repetition bound of both {0,49}
RestMax == 49

\* /^[a-zA-Z0-9][a-zA-Z0-9._-]{0,49}@[a-zA-Z][a-zA-Z0-9]{0,49}$/.test(str)
\* for a string with exactly one '@'
RegexTest(str) ==
    LET at == CHOOSE i \in 1..Len(str) : str[i] = 64
        user == SubSeq(str, 1, at - 1)
        handle == SubSeq(str, at + 1, Len(str))
    IN  /\ Len(user) >= 1 /\ Len(user) - 1 <= RestMax
        /\ IsAlnum(user[1])
        /\ \A i \in 2..Len(user) : IsUserChar(user[i])
        /\ Len(handle) >= 1 /\ Len(handle) - 1 <= RestMax
        /\ IsLetter(handle[1])
        /\ \A i \in 2..Len(handle) : IsAlnum(handle[i])

validateUpiId(id) ==
    IF id = <<>> \/ Trim(id) = <<>>
    THEN [valid |-> FALSE, message |-> "UPI ID is required"]
    ELSE IF AtCount(Trim(id)) # 1
    THEN [valid |-> FALSE,
          message |-> "UPI ID must contain exactly one @ symbol (e.g. name@upi)"]
    ELSE IF ~RegexTest(Trim(id))
    THEN [valid |-> FALSE,
          message |-> "Invalid UPI ID format. Expected: username@handle (e.g. merchant@upi, john.doe@oksbi)"]
    ELSE [valid |-> TRUE]

\* ------------------------------------------------------------------------
\* Galois field GF(256), lines 45-62
\* ------------------------------------------------------------------------

\* the reduction constant 0x11d
GF_POLY == 285

\* one round of the loop of initGaloisField on its state: the running x and
\* both tables (entries never assigned stay -1, the model's "empty slot")
GaloisStep(st, i) ==
    LET x2 == st.x * 2
    IN  [x   |-> IF x2 >= 256 THEN BitXor(x2, GF_POLY) ELSE x2,
         exp |-> [st.exp EXCEPT ![i] = st.x],
         log |-> [st.log EXCEPT ![st.x] = i]]

\* the rounds lo..hi in increasing order.  The range is split in halves so
\* that the nesting depth is logarithmic; the test on the first half's
\* result only makes TLC compute it before the second half starts (its
\* ELSE branch is never taken).
RECURSIVE GaloisLoop(_, _, _)
GaloisLoop(st, lo, hi) ==
    IF lo > hi THEN st
    ELSE IF lo = hi THEN GaloisStep(st, lo)
    ELSE LET mid == (lo + hi) \div 2
             half == GaloisLoop(st, lo, mid)
         IN  IF half.x >= 0 THEN GaloisLoop(half, mid + 1, hi) ELSE half

initGaloisField ==
    GaloisLoop([x |-> 1, exp |-> [i \in 0..255 |-> -1],
                log |-> [i \in 0..255 |-> -1]], 0, 255)

EXP_TABLE == initGaloisField.exp
LOG_TABLE == initGaloisField.log

\* The arrays EXP_TABLE and LOG_TABLE are module-level and mutable: the
\* running program holds them as state.  initGaloisField fills them when the
\* module is loaded (EXP_TABLE and LOG_TABLE above are their contents then);
\* the functions below read them where they stand.
VARIABLES
    expTable,   \* the array EXP_TABLE
    logTable,   \* the array LOG_TABLE
    galoisRuns  \* how many times initGaloisField has run

\* the value of an array read at an index it does not hold, and of the
\* arithmetic on it (JavaScript undefined / NaN)
UNDEFINED == -1

\* gfMul without "% 255" on the sum of the logarithms
gfMul_NoMod(a, b) ==
    IF a = 0 \/ b = 0 THEN 0
    ELSE IF logTable[a] + logTable[b] > 255 THEN UNDEFINED
    ELSE expTable[logTable[a] + logTable[b]]

\* gfMul testing only "a === 0"
gfMul_TestsOnlyA(a, b) ==
    IF a = 0 THEN 0
    ELSE IF logTable[b] = UNDEFINED THEN UNDEFINED
    ELSE expTable[(logTable[a] + logTable[b]) % 255]

\* gfMul reducing the sum of the logarithms modulo 256
gfMul_Mod256(a, b) ==
    IF a = 0 \/ b = 0 THEN 0
    ELSE expTable[(logTable[a] + logTable[b]) % 256]

gfMul(a, b) ==
    IF a = 0 \/ b = 0 THEN 0
    ELSE expTable[(logTable[a] + logTable[b]) % 255]

\* GenPolyStep multiplying by EXP_TABLE[i + 1] instead of EXP_TABLE[i]
GenPolyStep_NextRoot(poly, i) ==
    Eager([k \in 1..(Len(poly) + 1) |->
        BitXor(IF k <= Len(poly) THEN poly[k] ELSE 0,
               IF k >= 2 THEN gfMul(poly[k - 1], expTable[i + 1]) ELSE 0)])

\* one round of rsGenPoly's outer loop: newPoly of length Len(poly) + 1 with
\* newPoly[j] ^= poly[j] and newPoly[j+1] ^= gfMul(poly[j], EXP_TABLE[i])
GenPolyStep(poly, i) ==
    Eager([k \in 1..(Len(poly) + 1) |->
        BitXor(IF k <= Len(poly) THEN poly[k] ELSE 0,
               IF k >= 2 THEN gfMul(poly[k - 1], expTable[i]) ELSE 0)])

RECURSIVE GenPolyLoop(_, _, _)
GenPolyLoop(poly, i, ecLen) ==
    IF i >= ecLen THEN poly
    ELSE LET newPoly == GenPolyStep(poly, i)
         IN  IF Len(newPoly) >= 0 THEN GenPolyLoop(newPoly, i + 1, ecLen)
             ELSE newPoly

rsGenPoly(ecLen) == GenPolyLoop(<<1>>, 0, ecLen)

\* one round of rsEncode's outer loop at 0-based index i
RsStep(msg, gen, i) ==
    LET coef == msg[i + 1]
    IN  IF coef = 0 THEN msg
        ELSE Eager([k \in 1..Len(msg) |->
                IF k - 1 >= i /\ k - 1 < i + Len(gen)
                THEN BitXor(msg[k], gfMul(gen[k - i], coef))
                ELSE msg[k]])

\* the rounds lo..hi of rsEncode's outer loop, in increasing order
RECURSIVE RsLoop(_, _, _, _)
RsLoop(msg, gen, lo, hi) ==
    IF lo > hi THEN msg
    ELSE IF lo = hi THEN RsStep(msg, gen, lo)
    ELSE LET mid == (lo + hi) \div 2
             half == RsLoop(msg, gen, lo, mid)
         IN  IF Len(half) >= 0 THEN RsLoop(half, gen, mid + 1, hi) ELSE half

\* rsEncode returning msg whole, without "slice(data.length)"
rsEncode_NoSlice(data, ecLen) ==
    LET gen == rsGenPoly(ecLen)
        msg == data \o Zeros(ecLen)
    IN  RsLoop(msg, gen, 0, Len(data) - 1)

rsEncode(data, ecLen) ==
    LET gen == rsGenPoly(ecLen)
        msg == data \o Zeros(ecLen)
    IN  Slice(RsLoop(msg, gen, 0, Len(data) - 1), Len(data), Len(data) + ecLen)

\* ------------------------------------------------------------------------
\* Version table and version selection, lines 91-126
\* ------------------------------------------------------------------------

\* [version, totalCodewords, ecCodewordsPerBlock,
\*  group1Blocks, group1DataCw, group2Blocks, group2DataCw]
VERSION_TABLE ==
    << <<1, 16, 10, 1, 16, 0, 0>>,
       <<2, 28, 16, 1, 28, 0, 0>>,
       <<3, 44, 26, 1, 44, 0, 0>>,
       <<4, 64, 18, 2, 32, 0, 0>>,
       <<5, 86, 24, 2, 43, 0, 0>>,
       <<6, 108, 16, 4, 27, 0, 0>>,
       <<7, 124, 18, 4, 31, 0, 0>>,
       <<8, 152, 22, 2, 38, 2, 38>>,
       <<9, 180, 22, 3, 36, 2, 36>>,
       <<10, 216, 26, 4, 43, 1, 43>> >>

\* the blocks list the two push loops build from one table entry
BlocksOf(entry) ==
    [i \in 1..entry[4] |-> <<entry[5], entry[3]>>]
        \o [i \in 1..entry[6] |-> <<entry[7], entry[3]>>]

\* blocks.reduce((s, b) => s + b[0], 0)
RECURSIVE SumDataCw(_, _)
SumDataCw(blocks, k) ==
    IF k = 0 THEN 0 ELSE SumDataCw(blocks, k - 1) + blocks[k][1]

\* countBits = ver <= 9 ? 8 : 16
CountBits(ver) == IF ver <= 9 THEN 8 ELSE 16

VersionResult(entry) ==
    [version |-> entry[1], totalDcw |-> entry[2], ecCwPerBlock |-> entry[3],
     blocks |-> BlocksOf(entry)]

\* Fits with the 4 mode-indicator bits left out of totalBits
Fits_NoModeBits(entry, dataLen) ==
    LET blocks == BlocksOf(entry)
        totalDataCw == SumDataCw(blocks, Len(blocks))
    IN  CountBits(entry[1]) + dataLen * 8 <= totalDataCw * 8

\* the test of the loop body of pickVersion for one entry
Fits(entry, dataLen) ==
    LET blocks == BlocksOf(entry)
        totalDataCw == SumDataCw(blocks, Len(blocks))
        totalBits == 4 + CountBits(entry[1]) + dataLen * 8
        totalDataBits == totalDataCw * 8
    IN  totalBits <= totalDataBits

\* FallbackEntry taking the first row of the table instead of the last
FallbackEntry_First == VERSION_TABLE[1]

\* "const entry = VERSION_TABLE[9]": the tenth row
FallbackEntry == VERSION_TABLE[10]

RECURSIVE PickLoop(_, _)
PickLoop(k, dataLen) ==
    IF k > Len(VERSION_TABLE)
    THEN VersionResult(FallbackEntry)
    ELSE IF Fits(VERSION_TABLE[k], dataLen)
         THEN VersionResult(VERSION_TABLE[k])
         ELSE PickLoop(k + 1, dataLen)

pickVersion(dataLen) == PickLoop(1, dataLen)

\* ------------------------------------------------------------------------
\* Bitstream encoder, lines 128-188
\* ------------------------------------------------------------------------

\* the loop "bits += data.charCodeAt(i).toString(2).padStart(8, '0')"
\* for the characters lo..hi (1-based), in order
RECURSIVE CharBits(_, _, _)
CharBits(data, lo, hi) ==
    IF lo > hi THEN <<>>
    ELSE IF lo = hi THEN ToBits(data[lo], 8)
    ELSE LET mid == (lo + hi) \div 2
         IN  CharBits(data, lo, mid) \o CharBits(data, mid + 1, hi)

\* "while (bits.length % 8 !== 0) bits += '0'"
PadToByte(bits) == bits \o Zeros((8 - (Len(bits) % 8)) % 8)

\* the pad-byte loop: 0xec, 0x11 alternating while bits.length < capacity
\* (bits.length is a multiple of 8 here, so the loop runs
\* ceil((capacity - bits.length) / 8) times, padIdx = 0, 1, ...)
PadByte_StartsWith11(padIdx) == ToBits(IF padIdx % 2 = 0 THEN 17 ELSE 236, 8)

PadByte(padIdx) == ToBits(IF padIdx % 2 = 0 THEN 236 ELSE 17, 8)

PadBytes(bits, capacity) ==
    LET n == IF Len(bits) >= capacity THEN 0
             ELSE (capacity - Len(bits) + 7) \div 8
    IN  bits \o [j \in 1..(8 * n) |-> PadByte((j - 1) \div 8)[((j - 1) % 8) + 1]]

\* "for (i = 0; i < bits.length; i += 8) codewords.push(parseInt(slice))"
Codewords(bits) ==
    Eager([k \in 1..((Len(bits) + 7) \div 8) |->
        LET s == Slice(bits, 8 * (k - 1), 8 * k) IN ParseBinary(s, Len(s))])

\* the split loop: block k is codewords.slice(offset, offset + dcw)
RECURSIVE SplitBlocks(_, _, _, _)
SplitBlocks(codewords, blocks, k, offset) ==
    IF k > Len(blocks) THEN <<>>
    ELSE <<Slice(codewords, offset, offset + blocks[k][1])>>
            \o SplitBlocks(codewords, blocks, k + 1, offset + blocks[k][1])

\* encodeDataByte: '0'.repeat(termLen) throws RangeError when termLen < 0;
\* the result then carries threw = TRUE and no blocks
encodeDataByte(data, version, blocks) ==
    LET totalDataCw == SumDataCw(blocks, Len(blocks))
        countBits == CountBits(version)
        head == <<0, 1, 0, 0>> \o ToBits(Len(data), countBits)
        bits1 == head \o CharBits(data, 1, Len(data))
        capacity == totalDataCw * 8
        termLen == Min(4, capacity - Len(bits1))
    IN  IF termLen < 0
        THEN [threw |-> TRUE, dataBlocks |-> <<>>, ecBlocks |-> <<>>]
        ELSE LET bits2 == PadToByte(bits1 \o Zeros(termLen))
                 bits3 == PadBytes(bits2, capacity)
                 codewords == Codewords(bits3)
                 dataBlocks == SplitBlocks(codewords, blocks, 1, 0)
             IN  [threw |-> FALSE,
                  dataBlocks |-> dataBlocks,
                  ecBlocks |-> Eager([k \in 1..Len(blocks) |->
                                   rsEncode(dataBlocks[k], blocks[k][2])])]

\* one of interleave's two loops: index i of every block that has one
\* (inner loop: blocks k..Len(blocks) at 0-based index i)
RECURSIVE RoundOf(_, _, _)
RoundOf(blocks, i, k) ==
    IF k > Len(blocks) THEN <<>>
    ELSE (IF i < Len(blocks[k]) THEN <<blocks[k][i + 1]>> ELSE <<>>)
            \o RoundOf(blocks, i, k + 1)

\* (outer loop: the rounds i = lo..hi, in increasing order)
RECURSIVE RoundRobin(_, _, _)
RoundRobin(blocks, lo, hi) ==
    IF lo > hi THEN <<>>
    ELSE IF lo = hi THEN RoundOf(blocks, lo, 1)
    ELSE LET mid == (lo + hi) \div 2
         IN  RoundRobin(blocks, lo, mid) \o RoundRobin(blocks, mid + 1, hi)

\* interleave with its two loops in the other order: EC codewords first
interleave_EcFirst(dataBlocks, ecBlocks) ==
    RoundRobin(ecBlocks, 0, MaxLenOf(ecBlocks, 1) - 1)
        \o RoundRobin(dataBlocks, 0, MaxLenOf(dataBlocks, 1) - 1)

interleave(dataBlocks, ecBlocks) ==
    RoundRobin(dataBlocks, 0, MaxLenOf(dataBlocks, 1) - 1)
        \o RoundRobin(ecBlocks, 0, MaxLenOf(ecBlocks, 1) - 1)

\* ------------------------------------------------------------------------
\* Matrix builder, lines 190-262
\* ------------------------------------------------------------------------

\* a cell createMatrix has not assigned (JavaScript null)
NULL == -1

ALIGNMENT_POSITIONS ==
    [v \in 1..10 |->
        CASE v = 1 -> <<>>
          [] v = 2 -> <<6, 18>>
          [] v = 3 -> <<6, 22>>
          [] v = 4 -> <<6, 26>>
          [] v = 5 -> <<6, 30>>
          [] v = 6 -> <<6, 34>>
          [] v = 7 -> <<6, 22, 38>>
          [] v = 8 -> <<6, 24, 42>>
          [] v = 9 -> <<6, 26, 46>>
          [] v = 10 -> <<6, 28, 52>>]

\* Array.from({length: size}, () => new Array(size).fill(null))
EmptyMatrix(size) ==
    Eager([r \in 0..(size - 1) |-> [c \in 0..(size - 1) |-> NULL]])

\* the value drawFinder writes at offset (r, c) of its 9x9 footprint
FinderValue(r, c) ==
    IF r = -1 \/ r = 7 \/ c = -1 \/ c = 7 THEN 0
    ELSE IF (r = 0 \/ r = 6) \/ (c = 0 \/ c = 6)
            \/ (r >= 2 /\ r <= 4 /\ c >= 2 /\ c <= 4) THEN 1
    ELSE 0

\* drawFinder(row, col): every in-range cell of the footprint is assigned
drawFinder(m, size, row, col) ==
    Eager([mr \in 0..(size - 1) |-> [mc \in 0..(size - 1) |->
        IF mr - row >= -1 /\ mr - row <= 7 /\ mc - col >= -1 /\ mc - col <= 7
        THEN FinderValue(mr - row, mc - col)
        ELSE m[mr][mc]]])

\* the timing loop: i = 8 .. size-9, row 6 and column 6, only where null
DrawTiming(m, size) ==
    Eager([r \in 0..(size - 1) |-> [c \in 0..(size - 1) |->
        IF r = 6 /\ c >= 8 /\ c < size - 8 /\ m[r][c] = NULL
        THEN (IF c % 2 = 0 THEN 1 ELSE 0)
        ELSE IF c = 6 /\ r >= 8 /\ r < size - 8 /\ m[r][c] = NULL
        THEN (IF r % 2 = 0 THEN 1 ELSE 0)
        ELSE m[r][c]]])

\* matrix[size - 8][8] = 1
DrawDarkModule(m, size) == [m EXCEPT ![size - 8][8] = 1]

Abs(x) == IF x < 0 THEN -x ELSE x

\* DrawAlignment without "if (matrix[row][col] !== null) continue"
DrawAlignment_NoSkip(m, size, row, col) ==
    Eager([r \in 0..(size - 1) |-> [c \in 0..(size - 1) |->
        IF Abs(r - row) <= 2 /\ Abs(c - col) <= 2
        THEN (IF Abs(r - row) = 2 \/ Abs(c - col) = 2
                 \/ (r = row /\ c = col) THEN 1 ELSE 0)
        ELSE m[r][c]]])

\* the body of the alignment loops for one (row, col): skipped when the
\* centre is already assigned, else all 25 cells are assigned unconditionally
DrawAlignment(m, size, row, col) ==
    IF m[row][col] # NULL THEN m
    ELSE Eager([r \in 0..(size - 1) |-> [c \in 0..(size - 1) |->
            IF Abs(r - row) <= 2 /\ Abs(c - col) <= 2
            THEN (IF Abs(r - row) = 2 \/ Abs(c - col) = 2
                     \/ (r = row /\ c = col) THEN 1 ELSE 0)
            ELSE m[r][c]]])

\* "for (const row of positions) for (const col of positions)": k counts
\* the pairs in loop order, k = 0 .. Len(positions)^2 - 1
RECURSIVE AlignmentLoop(_, _, _, _)
AlignmentLoop(m, size, positions, k) ==
    IF k >= Len(positions) * Len(positions) THEN m
    ELSE LET drawn == DrawAlignment(m, size,
                                    positions[(k \div Len(positions)) + 1],
                                    positions[(k % Len(positions)) + 1])
         IN  IF drawn = drawn THEN AlignmentLoop(drawn, size, positions, k + 1)
             ELSE drawn

DrawAlignments(m, size, version) ==
    IF version >= 2 /\ Len(ALIGNMENT_POSITIONS[version]) > 0
    THEN AlignmentLoop(m, size, ALIGNMENT_POSITIONS[version], 0)
    ELSE m

\* ReserveFormat zeroing all of row 8 and of column 8 where still null
ReserveFormat_WholeLines(m, size) ==
    Eager([r \in 0..(size - 1) |-> [c \in 0..(size - 1) |->
        IF m[r][c] = NULL /\ (r = 8 \/ c = 8) THEN 0 ELSE m[r][c]]])

\* "Reserve format info areas": 0 where still null
ReserveFormat(m, size) ==
    Eager([r \in 0..(size - 1) |-> [c \in 0..(size - 1) |->
        IF m[r][c] = NULL
           /\ (   (r = 8 /\ c <= 7)
               \/ (c = 8 /\ r <= 7)
               \/ (r = 8 /\ c >= size - 8)
               \/ (c = 8 /\ r >= size - 8)
               \/ (r = 8 /\ c = 8))
        THEN 0
        ELSE m[r][c]]])

\* the matrix of createMatrix when it reaches "Alignment patterns"
BaseMatrix(version) ==
    LET size == version * 4 + 17
        m0 == EmptyMatrix(size)
        m1 == drawFinder(m0, size, 0, 0)
        m2 == drawFinder(m1, size, 0, size - 7)
        m3 == drawFinder(m2, size, size - 7, 0)
        m4 == DrawTiming(m3, size)
    IN  DrawDarkModule(m4, size)

\* the matrix of createMatrix when it reaches "Reserve format info areas"
PatternMatrix(version) ==
    DrawAlignments(BaseMatrix(version), version * 4 + 17, version)

createMatrix(version) ==
    LET size == version * 4 + 17
    IN  [matrix |-> ReserveFormat(PatternMatrix(version), size), size |-> size]

\* ------------------------------------------------------------------------
\* Data placement, lines 264-284
\* ------------------------------------------------------------------------

\* "for (const byte of data) bits += byte.toString(2).padStart(8, '0')"
RECURSIVE ByteBits(_, _, _)
ByteBits(bytes, lo, hi) ==
    IF lo > hi THEN <<>>
    ELSE IF lo = hi THEN ToBits(bytes[lo], 8)
    ELSE LET mid == (lo + hi) \div 2
         IN  ByteBits(bytes, lo, mid) \o ByteBits(bytes, mid + 1, hi)

\* (PlaceCell_NoNullTest is PlaceCell without "if (matrix[row][cc] !== null)
\* continue".)
\* The state of placeData's loops: the matrix, bitIdx, upward, and writes,
\* which counts for every cell the assignments "matrix[row][cc] = ..." made
\* to it (from the code's one assignment statement, line 278); order gives
\* every cell the number (from 1) of the iteration of the innermost loop that
\* reached it (0: none did), and visited counts those iterations.
PlaceCell_NoNullTest(st, bits, row, cc) ==
    [st EXCEPT
        !.matrix[row][cc] =
            IF st.bitIdx < Len(bits) THEN bits[st.bitIdx + 1] ELSE 0,
        !.bitIdx = @ + 1,
        !.writes[row][cc] = @ + 1,
        !.bitAt[row][cc] = st.bitIdx,
        !.order[row][cc] = st.visited + 1,
        !.visited = @ + 1]

\* PlaceCell writing 1 instead of 0 once the bits are used up
PlaceCell_OnesAfterEnd(st, bits, row, cc) ==
    IF st.matrix[row][cc] # NULL
    THEN [st EXCEPT !.order[row][cc] = st.visited + 1,
                    !.visited = @ + 1]
    ELSE [st EXCEPT
            !.matrix[row][cc] =
                IF st.bitIdx < Len(bits) THEN bits[st.bitIdx + 1] ELSE 1,
            !.bitIdx = @ + 1,
            !.writes[row][cc] = @ + 1,
            !.bitAt[row][cc] = st.bitIdx,
            !.order[row][cc] = st.visited + 1,
            !.visited = @ + 1]

\* (bitAt gives every cell written the value of bitIdx at its assignment,
\* -1 for a cell never written)
PlaceCell(st, bits, row, cc) ==
    IF st.matrix[row][cc] # NULL
    THEN [st EXCEPT !.order[row][cc] = st.visited + 1,
                    !.visited = @ + 1]
    ELSE [st EXCEPT
            !.matrix[row][cc] =
                IF st.bitIdx < Len(bits) THEN bits[st.bitIdx + 1] ELSE 0,
            !.bitIdx = @ + 1,
            !.writes[row][cc] = @ + 1,
            !.bitAt[row][cc] = st.bitIdx,
            !.order[row][cc] = st.visited + 1,
            !.visited = @ + 1]

\* PlaceRow taking the left column of the pair before the right one
PlaceRow_LeftFirst(st, bits, row, col) ==
    PlaceCell(PlaceCell(st, bits, row, col - 1), bits, row, col)

\* "for (let c = 0; c < 2; c++) { const cc = col - c ... }"
PlaceRow(st, bits, row, col) ==
    PlaceCell(PlaceCell(st, bits, row, col), bits, row, col - 1)

\* RowAt scanning every column pair from the bottom row to the top row
RowAt_AlwaysUp(size, upward, i) == size - 1 - i

\* rows[i]: size-1-i when upward, else i
RowAt(size, upward, i) == IF upward THEN size - 1 - i ELSE i

\* "for (const row of rows)": the entries lo..hi of rows, in order
RECURSIVE PlaceRows(_, _, _, _, _, _, _)
PlaceRows(st, bits, size, col, upward, lo, hi) ==
    IF lo > hi THEN st
    ELSE IF lo = hi THEN PlaceRow(st, bits, RowAt(size, upward, lo), col)
    ELSE LET mid == (lo + hi) \div 2
             half == PlaceRows(st, bits, size, col, upward, lo, mid)
         IN  IF half.bitIdx >= 0
             THEN PlaceRows(half, bits, size, col, upward, mid + 1, hi)
             ELSE half

\* "for (let col = size - 1; col >= 1; col -= 2)" with its body
RECURSIVE PlaceCols(_, _, _, _)
PlaceCols(st, bits, size, col) ==
    IF col < 1 THEN st
    ELSE LET c == IF col = 6 THEN 5 ELSE col      \* skip timing column
             done == PlaceRows(st, bits, size, c, st.upward, 0, size - 1)
             after == [done EXCEPT !.upward = ~st.upward,
                                   !.pairs = Append(@, <<c, st.upward>>)]
         IN  IF after.bitIdx >= 0
             THEN PlaceCols(after, bits, size, c - 2)
             ELSE after

\* placeData mutates its argument; the result is the final loop state
\* (pairs lists the column pairs visited with their scan direction)
placeData(matrix, size, data) ==
    LET bits == ByteBits(data, 1, Len(data))
    IN  IF Len(bits) < 0 THEN [matrix |-> matrix] ELSE
        PlaceCols([matrix |-> matrix, bitIdx |-> 0, upward |-> TRUE,
                   writes |-> Eager([r \in 0..(size - 1) |->
                                       [c \in 0..(size - 1) |-> 0]]),
                   order |-> Eager([r \in 0..(size - 1) |->
                                      [c \in 0..(size - 1) |-> 0]]),
                   visited |-> 0,
                   bitAt |-> Eager([r \in 0..(size - 1) |->
                                      [c \in 0..(size - 1) |-> -1]]),
                   pairs |-> <<>>],
                  bits, size, size - 1)

\* ------------------------------------------------------------------------
\* Mask and format information, lines 286-338
\* ------------------------------------------------------------------------

\* the first loop: result[r][c] = matrix[r][c] ?? 0
MaskCopy(matrix, size) ==
    Eager([r \in 0..(size - 1) |-> [c \in 0..(size - 1) |->
        IF matrix[r][c] = NULL THEN 0 ELSE matrix[r][c]]])

\* maskFn selecting the cells with an odd row + col
maskFn_OddCells(r, c) == (r + c) % 2 = 1

\* (r, c) => (r + c) % 2 === 0
maskFn(r, c) == (r + c) % 2 = 0

\* createMatrix(Math.floor((size - 17) / 4))
TemplateOf(size) == createMatrix((size - 17) \div 4)

\* MaskXor without the test of the template
MaskXor_NoTemplate(result, template, size) ==
    Eager([r \in 0..(size - 1) |-> [c \in 0..(size - 1) |->
        IF maskFn(r, c) THEN BitXor(result[r][c], 1) ELSE result[r][c]]])

\* the second loop: result[r][c] ^= 1 on the template's null cells
MaskXor(result, template, size) ==
    Eager([r \in 0..(size - 1) |-> [c \in 0..(size - 1) |->
        IF template[r][c] = NULL /\ maskFn(r, c)
        THEN BitXor(result[r][c], 1)
        ELSE result[r][c]]])

\* '101010000010010'
formatBits == <<1, 0, 1, 0, 1, 0, 0, 0, 0, 0, 1, 0, 0, 1, 0>>

hPositions ==
    << <<8, 0>>, <<8, 1>>, <<8, 2>>, <<8, 3>>, <<8, 4>>, <<8, 5>>,
       <<8, 7>>, <<8, 8>> >>

vPositions ==
    << <<7, 8>>, <<5, 8>>, <<4, 8>>, <<3, 8>>, <<2, 8>>, <<1, 8>>, <<0, 8>> >>

\* the four format loops as the list of their assignments
\* <<row, col, bit, k>> in execution order, bit = parseInt(formatBits[k], 10)
FormatWrites(size) ==
    [i \in 1..8 |-> <<hPositions[i][1], hPositions[i][2], formatBits[i], i - 1>>]
    \o [i \in 1..7 |-> <<vPositions[i][1], vPositions[i][2],
                         formatBits[14 - (i - 1) + 1], 14 - (i - 1)>>]
    \o [i \in 1..7 |-> <<8, size - 1 - (i - 1), formatBits[i], i - 1>>]
    \o [i \in 1..8 |-> <<size - 8 + (i - 1), 8, formatBits[14 - (i - 1) + 1],
                         14 - (i - 1)>>]

RECURSIVE ApplyWrites(_, _, _)
ApplyWrites(result, writes, k) ==
    IF k > Len(writes) THEN result
    ELSE LET written == [result EXCEPT
                            ![writes[k][1]][writes[k][2]] = writes[k][3]]
         IN  IF written = written THEN ApplyWrites(written, writes, k + 1)
             ELSE written

WriteFormat(result, size) == ApplyWrites(result, FormatWrites(size), 1)

\* applyMask with its two intermediate values of result kept
applyMaskSteps(matrix, size) ==
    LET copied == MaskCopy(matrix, size)
        template == TemplateOf(size).matrix
        xored == MaskXor(copied, template, size)
    IN  IF copied = copied /\ template = template /\ xored = xored
        THEN [copied |-> copied, template |-> template, xored |-> xored,
              result |-> WriteFormat(xored, size)]
        ELSE [copied |-> copied, template |-> template, xored |-> xored,
              result |-> xored]

applyMask(matrix, size) == applyMaskSteps(matrix, size).result

\* ------------------------------------------------------------------------
\* Renderer and public entry point, lines 351-390
\* ------------------------------------------------------------------------

moduleSizeDefault == 4
quietZoneDefault == 4

\* the path segments "M x,y h.. v.. h-.. z" of row r, columns lo..hi, as
\* <<x, y, moduleSize>>
RECURSIVE RowPaths(_, _, _, _, _, _)
RowPaths(matrix, r, lo, hi, moduleSize, quietZone) ==
    IF lo > hi THEN <<>>
    ELSE IF lo = hi
    THEN (IF matrix[r][lo] = 1
          THEN << <<(lo + quietZone) * moduleSize,
                    (r + quietZone) * moduleSize, moduleSize>> >>
          ELSE <<>>)
    ELSE LET mid == (lo + hi) \div 2
         IN  RowPaths(matrix, r, lo, mid, moduleSize, quietZone)
                \o RowPaths(matrix, r, mid + 1, hi, moduleSize, quietZone)

RECURSIVE AllPaths(_, _, _, _, _, _)
AllPaths(matrix, size, lo, hi, moduleSize, quietZone) ==
    IF lo > hi THEN <<>>
    ELSE IF lo = hi
    THEN RowPaths(matrix, lo, 0, size - 1, moduleSize, quietZone)
    ELSE LET mid == (lo + hi) \div 2
         IN  AllPaths(matrix, size, lo, mid, moduleSize, quietZone)
                \o AllPaths(matrix, size, mid + 1, hi, moduleSize, quietZone)

\* the SVG document as a record of the attributes the template string holds
qrToSvg(matrix, size, moduleSize, quietZone) ==
    LET fullSize == (size + quietZone * 2) * moduleSize
    IN  [viewBox |-> <<0, 0, fullSize, fullSize>>,
         width |-> fullSize, height |-> fullSize,
         rect |-> [width |-> fullSize, height |-> fullSize, fill |-> "white"],
         path |-> [d |-> AllPaths(matrix, size, 0, size - 1,
                                  moduleSize, quietZone),
                   fill |-> "black"]]

\* the value generateUpiQrCode returns: the data-URI prefix and the document
\* that btoa / Buffer.from(..).toString('base64') encodes (the encoding itself
\* is not modelled; both branches build the same string)
DataUri(svg) == [prefix |-> "data:image/svg+xml;base64,", body |-> svg]

\* ------------------------------------------------------------------------
\* Inputs
\* ------------------------------------------------------------------------

\* payload lengths 0..MaxPayloadLen for the encoder (the largest payload
\* version 10 takes has 212 characters)
MaxPayloadLen == 214

\* lengths 0..MaxDataLen for pickVersion alone
MaxDataLen == 240

\* the payload of length L given to generateQrMatrix: its characters run
\* through all the codes 0..255
Payload(L) == [i \in 1..L |-> (i * 37 + 11) % 256]

Payloads == {Payload(L) : L \in 0..MaxPayloadLen}

\* calls of generateUpiQrCode: a payee address of 0..MaxVpaLen letters and
\* a currency, INR or the rupee sign, the other parameters left out
MaxVpaLen == 10

Letters(n) == [i \in 1..n |-> 97 + ((i - 1) % 26)]

UpiCalls ==
    { [vpa |-> Letters(n), payeeName |-> Undefined, amount |-> Undefined,
       currency |-> cur, note |-> Undefined, mcc |-> Undefined,
       txnRefId |-> Undefined] :
        n \in 0..MaxVpaLen, cur \in {Some(<<73, 78, 82>>), Some(<<8377>>)} }

\* sequences of up to MaxCalls calls of generateUpiQrCode, each with a payee
\* address of 0..MaxRepeatVpaLen letters and INR, or with the 8-letter
\* address and the rupee sign (the call that throws)
MaxCalls == 3
MaxRepeatVpaLen == 1

UpiCall(n, cur) ==
    [vpa |-> Letters(n), payeeName |-> Undefined, amount |-> Undefined,
     currency |-> cur, note |-> Undefined, mcc |-> Undefined,
     txnRefId |-> Undefined]

RepeatCalls ==
    {UpiCall(n, Some(<<73, 78, 82>>)) : n \in 0..MaxRepeatVpaLen}
        \cup {UpiCall(8, Some(<<8377>>))}

\* arguments of validateUpiId: every string of up to MaxIdLen characters
\* over IdAlphabet (a, Z, 1, dot, hyphen, underscore, @, space, !), and the
\* strings user@handle of letters with 1, 49, 50 or 51 characters each side
MaxIdLen == 4

IdAlphabet == {97, 90, 49, 46, 45, 95, 64, 32, 33}

ShortIds == UNION {[1..n -> IdAlphabet] : n \in 0..MaxIdLen}

LongLens == {1, RestMax, RestMax + 1, RestMax + 2}

LongIds == {Letters(n) \o <<64>> \o Letters(m) : n \in LongLens, m \in LongLens}

\* parameter values for buildUpiUri
VpaValues ==
    { <<109, 101, 114, 99, 104, 97, 110, 116, 64, 117, 112, 105>>,  \* merchant@upi
      <<97, 38, 98>>,                                              \* a&b
      <<>> }
NameValues ==
    { Undefined, Some(<<>>), Some(<<65, 110, 110, 32, 76, 101, 101>>), \* Ann Lee
      Some(<<233>>) }                                                  \* e-acute
AmountValues == { Undefined, Some(-100), Some(0), Some(5), Some(25000) }
CurrencyValues ==
    { Undefined, Some(<<>>), Some(<<73, 78, 82>>), Some(<<8377>>) }    \* INR, rupee sign
NoteValues ==
    { Undefined, Some(<<>>), Some(<<84, 101, 115, 116>>),              \* Test
      Some(<<97, 61, 98, 38, 99>>) }                                   \* a=b&c
MccValues ==
    { Undefined, Some(<<>>), Some(<<53, 52, 49, 49>>),                 \* 5411
      Some(<<53, 38, 49>>),                                            \* 5&1
      Some(<<49, 38, 112, 110, 61, 120>>) }                            \* 1&pn=x
RefValues ==
    { Undefined, Some(<<>>), Some(<<84, 49>>), Some(<<35, 57>>) }      \* T1, #9

ParamSpace ==
    [vpa : VpaValues, payeeName : NameValues, amount : AmountValues,
     currency : CurrencyValues, note : NoteValues, mcc : MccValues,
     txnRefId : RefValues]

\* arguments of interleave: up to MaxBlocks data blocks of 1..MaxBlockLen
\* codewords each, with one EC block of 1..MaxEcLen codewords per data block,
\* and the block shapes of the ten rows of the version table
MaxBlocks == 3
MaxBlockLen == 3
MaxEcLen == 2

\* a block of n codewords, told apart by block number and index
BlockOf(base, k, n) == [i \in 1..n |-> (base + 16 * k + i) % 256]

BlockLists(base, maxLen) ==
    UNION {{[k \in 1..nb |-> BlockOf(base, k, lens[k])] :
                lens \in [1..nb -> 1..maxLen]} : nb \in 1..MaxBlocks}

TableBlocks(v, col, base) ==
    [k \in 1..Len(BlocksOf(VERSION_TABLE[v])) |->
        BlockOf(base, k, BlocksOf(VERSION_TABLE[v])[k][col])]

InterleaveArgs ==
    {[threw |-> FALSE, dataBlocks |-> d, ecBlocks |-> e] :
        d \in BlockLists(0, MaxBlockLen), e \in BlockLists(128, MaxEcLen)}
    \cup {[threw |-> FALSE, dataBlocks |-> TableBlocks(v, 1, 0),
           ecBlocks |-> TableBlocks(v, 2, 128)] : v \in 1..Len(VERSION_TABLE)}

\* ------------------------------------------------------------------------
\* State
\* ------------------------------------------------------------------------

VARIABLES
    pc,        \* position: "call" (generateUpiQrCode or buildUpiUri entered),
               \* "start" (generateQrMatrix or pickVersion entered), then
               \* the name of the last completed step
    params,    \* buildUpiUri: its argument
    parts,     \* buildUpiUri: the array parts at the return statement
    uri,       \* buildUpiUri: the string returned
    data,      \* generateQrMatrix: the payload string
    dataLen,   \* pickVersion: its argument (data.length)
    ver,       \* pickVersion's result
    enc,       \* encodeDataByte's result (threw = TRUE: it threw RangeError)
    stream,    \* interleave's result
    cm,        \* createMatrix's result, before placement
    placed,    \* placeData's final loop state
    mask,      \* applyMask: result after each of its three phases
    svg,       \* qrToSvg's result
    out,       \* generateUpiQrCode's return value
    calls,     \* the calls of generateUpiQrCode that have ended, in order:
               \* the parameters and the outcome of each
    ga, gb,    \* gfMul: its arguments
    prod,      \* gfMul: its result
    upiId,     \* validateUpiId: its argument
    verdict    \* validateUpiId: its result

vars == <<pc, params, parts, uri, data, dataLen, ver, enc, stream, cm, placed,
          mask, svg, out, calls, ga, gb, prod, upiId, verdict, expTable,
          logTable, galoisRuns>>

\* the module-level arrays; the locals of gfMul and of validateUpiId
moduleState == <<expTable, logTable, galoisRuns>>
gfLocals == <<ga, gb, prod>>
idLocals == <<upiId, verdict>>

\* a variable no step has assigned yet
None == <<>>

\* the state of the module-level arrays once the module is loaded: the
\* function expression of line 48 is called once, where it stands
LoadRuns == 1
ModuleLoaded ==
    expTable = EXP_TABLE /\ logTable = LOG_TABLE /\ galoisRuns = LoadRuns

\* gfMul and validateUpiId not called
GfIdle == ga = 0 /\ gb = 0 /\ prod = None
IdIdle == upiId = None /\ verdict = None

\* ------------------------------------------------------------------------
\* buildUpiUri as one step
\* ------------------------------------------------------------------------

InitUri ==
    /\ pc = "call"
    /\ params \in ParamSpace
    /\ parts = None /\ uri = None /\ data = None /\ dataLen = 0
    /\ ver = None /\ enc = None /\ stream = None /\ cm = None
    /\ placed = None /\ mask = None /\ svg = None /\ out = None
    /\ calls = <<>>
    /\ ModuleLoaded /\ GfIdle /\ IdIdle

BuildUpiUri ==
    /\ pc = "call"
    /\ pc' = "built"
    /\ parts' = UriParts(params)
    /\ uri' = buildUpiUri(params)
    /\ UNCHANGED <<params, data, dataLen, ver, enc, stream, cm, placed, mask,
                   svg, out,
                   calls, moduleState, gfLocals, idLocals>>

NextUri == BuildUpiUri

SpecUri == InitUri /\ [][NextUri]_vars

\* ------------------------------------------------------------------------
\* pickVersion as one step
\* ------------------------------------------------------------------------

InitVer ==
    /\ pc = "start"
    /\ dataLen \in 0..MaxDataLen
    /\ params = None /\ parts = None /\ uri = None /\ data = None
    /\ ver = None /\ enc = None /\ stream = None /\ cm = None
    /\ placed = None /\ mask = None /\ svg = None /\ out = None
    /\ calls = <<>>
    /\ ModuleLoaded /\ GfIdle /\ IdIdle

PickVersion ==
    /\ pc = "start"
    /\ pc' = "picked"
    /\ ver' = pickVersion(dataLen)
    /\ UNCHANGED <<params, parts, uri, data, dataLen, enc, stream, cm, placed,
                   mask, svg, out,
                   calls, moduleState, gfLocals, idLocals>>

NextVer == PickVersion

SpecVer == InitVer /\ [][NextVer]_vars

\* ------------------------------------------------------------------------
\* generateQrMatrix, qrToSvg and the return of generateUpiQrCode, step by
\* step (lines 340-347 and 381-389)
\* ------------------------------------------------------------------------

\* Either generateUpiQrCode is called with params, or generateQrMatrix is
\* entered with a payload of its own.
Init ==
    /\ \/ /\ pc = "call"
          /\ params \in UpiCalls
          /\ data = None /\ dataLen = 0
       \/ /\ pc = "start"
          /\ params = None
          /\ data \in Payloads
          /\ dataLen = Len(data)
    /\ parts = None /\ uri = None
    /\ ver = None /\ enc = None /\ stream = None /\ cm = None
    /\ placed = None /\ mask = None /\ svg = None /\ out = None
    /\ calls = <<>>
    /\ ModuleLoaded /\ GfIdle /\ IdIdle

\* "const matrix = generateQrMatrix(uri)": the payload is the URI
GenerateQrMatrix ==
    /\ pc = "built"
    /\ pc' = "start"
    /\ data' = uri
    /\ dataLen' = Len(uri)
    /\ UNCHANGED <<params, parts, uri, ver, enc, stream, cm, placed, mask,
                   svg, out,
                   calls, moduleState, gfLocals, idLocals>>

\* EncodeDataByte leaving the array EXP_TABLE rotated by one place
EncodeDataByte_ShiftsExpTable ==
    /\ pc = "picked"
    /\ enc' = encodeDataByte(data, ver.version, ver.blocks)
    /\ pc' = IF enc'.threw THEN "threw" ELSE "encoded"
    /\ expTable' = [i \in 0..255 |-> expTable[(i + 1) % 256]]
    /\ UNCHANGED <<params, parts, uri, data, dataLen, ver, stream, cm, placed,
                   mask, svg, out, calls, logTable, galoisRuns, gfLocals,
                   idLocals>>

\* encodeDataByte returns, or throws RangeError: nothing catches it, so
\* generateQrMatrix and generateUpiQrCode end there
EncodeDataByte ==
    /\ pc = "picked"
    /\ enc' = encodeDataByte(data, ver.version, ver.blocks)
    /\ pc' = IF enc'.threw THEN "threw" ELSE "encoded"
    /\ UNCHANGED <<params, parts, uri, data, dataLen, ver, stream, cm, placed,
                   mask, svg, out,
                   calls, moduleState, gfLocals, idLocals>>

Interleave ==
    /\ pc = "encoded"
    /\ pc' = "interleaved"
    /\ stream' = interleave(enc.dataBlocks, enc.ecBlocks)
    /\ UNCHANGED <<params, parts, uri, data, dataLen, ver, enc, cm, placed,
                   mask, svg, out,
                   calls, moduleState, gfLocals, idLocals>>

CreateMatrix ==
    /\ pc = "interleaved"
    /\ pc' = "matrix"
    /\ cm' = createMatrix(ver.version)
    /\ UNCHANGED <<params, parts, uri, data, dataLen, ver, enc, stream, placed,
                   mask, svg, out,
                   calls, moduleState, gfLocals, idLocals>>

PlaceData ==
    /\ pc = "matrix"
    /\ pc' = "placed"
    /\ placed' = placeData(cm.matrix, cm.size, stream)
    /\ UNCHANGED <<params, parts, uri, data, dataLen, ver, enc, stream, cm,
                   mask, svg, out,
                   calls, moduleState, gfLocals, idLocals>>

ApplyMask ==
    /\ pc = "placed"
    /\ pc' = "masked"
    /\ mask' = applyMaskSteps(placed.matrix, cm.size)
    /\ UNCHANGED <<params, parts, uri, data, dataLen, ver, enc, stream, cm,
                   placed, svg, out,
                   calls, moduleState, gfLocals, idLocals>>

QrToSvg ==
    /\ pc = "masked"
    /\ pc' = "rendered"
    /\ svg' = qrToSvg(mask.result, cm.size, moduleSizeDefault, quietZoneDefault)
    /\ UNCHANGED <<params, parts, uri, data, dataLen, ver, enc, stream, cm,
                   placed, mask, out,
                   calls, moduleState, gfLocals, idLocals>>

ReturnDataUri ==
    /\ pc = "rendered"
    /\ pc' = "done"
    /\ out' = DataUri(svg)
    /\ UNCHANGED <<params, parts, uri, data, dataLen, ver, enc, stream, cm,
                   placed, mask, svg,
                   calls, moduleState, gfLocals, idLocals>>

Next ==
    \/ BuildUpiUri
    \/ GenerateQrMatrix
    \/ PickVersion
    \/ EncodeDataByte
    \/ Interleave
    \/ CreateMatrix
    \/ PlaceData
    \/ ApplyMask
    \/ QrToSvg
    \/ ReturnDataUri

Spec == Init /\ [][Next]_vars

\* ------------------------------------------------------------------------
\* generateUpiQrCode called several times, one call after the other
\* ------------------------------------------------------------------------

InitCalls ==
    /\ pc = "call"
    /\ params \in RepeatCalls
    /\ parts = None /\ uri = None /\ data = None /\ dataLen = 0
    /\ ver = None /\ enc = None /\ stream = None /\ cm = None
    /\ placed = None /\ mask = None /\ svg = None /\ out = None
    /\ calls = <<>>
    /\ ModuleLoaded /\ GfIdle /\ IdIdle

\* the call ends, by its return statement or by the exception
EndCall ==
    /\ pc \in {"done", "threw"}
    /\ pc' = "ended"
    /\ calls' = Append(calls, [params |-> params, threw |-> pc = "threw",
                               image |-> out, galoisRuns |-> galoisRuns])
    /\ UNCHANGED <<params, parts, uri, data, dataLen, ver, enc, stream, cm,
                   placed, mask, svg, out, moduleState, gfLocals, idLocals>>

\* CallAgain with the matrix of the call before kept for the next one
CallAgain_KeepsMatrix ==
    /\ pc = "ended"
    /\ Len(calls) < MaxCalls
    /\ pc' = "call"
    /\ params' \in RepeatCalls
    /\ parts' = None /\ uri' = None /\ data' = None /\ dataLen' = 0
    /\ ver' = None /\ enc' = None /\ stream' = None
    /\ placed' = None /\ mask' = None /\ svg' = None /\ out' = None
    /\ UNCHANGED <<cm, calls, moduleState, gfLocals, idLocals>>

\* the next call: its locals are new, the module-level arrays are not
CallAgain ==
    /\ pc = "ended"
    /\ Len(calls) < MaxCalls
    /\ pc' = "call"
    /\ params' \in RepeatCalls
    /\ parts' = None /\ uri' = None /\ data' = None /\ dataLen' = 0
    /\ ver' = None /\ enc' = None /\ stream' = None /\ cm' = None
    /\ placed' = None /\ mask' = None /\ svg' = None /\ out' = None
    /\ UNCHANGED <<calls, moduleState, gfLocals, idLocals>>

NextCalls ==
    \/ BuildUpiUri
    \/ GenerateQrMatrix
    \/ PickVersion
    \/ EncodeDataByte
    \/ Interleave
    \/ CreateMatrix
    \/ PlaceData
    \/ ApplyMask
    \/ QrToSvg
    \/ ReturnDataUri
    \/ EndCall
    \/ CallAgain

SpecCalls == InitCalls /\ [][NextCalls]_vars

\* ------------------------------------------------------------------------
\* validateUpiId as one step
\* ------------------------------------------------------------------------

InitId ==
    /\ pc = "start"
    /\ upiId \in ShortIds \cup LongIds
    /\ verdict = None
    /\ params = None /\ parts = None /\ uri = None /\ data = None
    /\ dataLen = 0
    /\ ver = None /\ enc = None /\ stream = None /\ cm = None
    /\ placed = None /\ mask = None /\ svg = None /\ out = None
    /\ calls = <<>>
    /\ ModuleLoaded /\ GfIdle

ValidateUpiId ==
    /\ pc = "start"
    /\ pc' = "validated"
    /\ verdict' = validateUpiId(upiId)
    /\ UNCHANGED <<params, parts, uri, data, dataLen, ver, enc, stream, cm,
                   placed, mask, svg, out, calls, upiId, moduleState,
                   gfLocals>>

NextId == ValidateUpiId

SpecId == InitId /\ [][NextId]_vars

\* ------------------------------------------------------------------------
\* gfMul as one step
\* ------------------------------------------------------------------------

InitGf ==
    /\ pc = "start"
    /\ ga \in 0..255 /\ gb \in 0..255 /\ prod = None
    /\ params = None /\ parts = None /\ uri = None /\ data = None
    /\ dataLen = 0
    /\ ver = None /\ enc = None /\ stream = None /\ cm = None
    /\ placed = None /\ mask = None /\ svg = None /\ out = None
    /\ calls = <<>>
    /\ ModuleLoaded /\ IdIdle

GfMul ==
    /\ pc = "start"
    /\ pc' = "multiplied"
    /\ prod' = gfMul(ga, gb)
    /\ UNCHANGED <<params, parts, uri, data, dataLen, ver, enc, stream, cm,
                   placed, mask, svg, out, calls, ga, gb, moduleState,
                   idLocals>>

NextGf == GfMul

SpecGf == InitGf /\ [][NextGf]_vars

\* ------------------------------------------------------------------------
\* interleave as one step
\* ------------------------------------------------------------------------

InitInterleave ==
    /\ pc = "encoded"
    /\ enc \in {a \in InterleaveArgs : Len(a.dataBlocks) = Len(a.ecBlocks)}
    /\ params = None /\ parts = None /\ uri = None /\ data = None
    /\ dataLen = 0
    /\ ver = None /\ stream = None /\ cm = None
    /\ placed = None /\ mask = None /\ svg = None /\ out = None
    /\ calls = <<>>
    /\ ModuleLoaded /\ GfIdle /\ IdIdle

NextInterleave == Interleave

SpecInterleave == InitInterleave /\ [][NextInterleave]_vars

\* ------------------------------------------------------------------------
\* Properties
\* ------------------------------------------------------------------------

\* required and available bits of tabulated version v for a payload of L
\* characters, from the version table's columns
Required(v, L) == 4 + (IF v <= 9 THEN 8 ELSE 16) + 8 * L
Available(v) ==
    8 * (VERSION_TABLE[v][4] * VERSION_TABLE[v][5]
            + VERSION_TABLE[v][6] * VERSION_TABLE[v][7])
Tabulated == 1..Len(VERSION_TABLE)

\* the longest payload pickVersion's test accepts for version 10
V10Capacity == (Available(10) - Required(10, 0)) \div 8

Cells(size) == (0..(size - 1)) \X (0..(size - 1))

\* C1: for every payload longer than the version-10 capacity the encoder
\* throws nothing and returns a version-10 symbol of 57x57 modules.
\* (Stated of the runs that have ended, by return or by exception.)
C1_SilentOverflow ==
    (pc \in {"threw", "done"} /\ dataLen > V10Capacity)
        => (pc = "done" /\ ver.version = 10 /\ cm.size = 57
                /\ DOMAIN mask.result = 0..56)

\* C2: for every payload of length 1 up to the version-10 capacity, the
\* encoder ends without throwing and returns a data:image/svg+xml;base64,
\* image whose width and height are (version*4 + 17 + 8) * 4 for the version
\* pickVersion selects.
C2_EncodeReturnsSizedImage ==
    (pc \in {"threw", "done"} /\ dataLen \in 1..V10Capacity)
        => /\ pc = "done"
           /\ out.prefix = "data:image/svg+xml;base64,"
           /\ out.body.width = (pickVersion(dataLen).version * 4 + 17 + 8) * 4
           /\ out.body.height = out.body.width

\* C3: in the matrix the encoder returns, the dark module at row size-8,
\* column 8 is black, for every version and payload.
C3_DarkModuleBlack ==
    pc = "done" => mask.result[cm.size - 8][8] = 1

\* C4: placeData writes every cell createMatrix left unset exactly once,
\* writes no cell createMatrix fixed and leaves no cell unset; the number of
\* writes is the number of cells that were unset.
C4_PlacementExact ==
    pc = "placed" =>
        /\ \A rc \in Cells(cm.size) :
            /\ placed.writes[rc[1]][rc[2]]
                    = (IF cm.matrix[rc[1]][rc[2]] = NULL THEN 1 ELSE 0)
            /\ placed.matrix[rc[1]][rc[2]] # NULL
            /\ cm.matrix[rc[1]][rc[2]] # NULL
                    => placed.matrix[rc[1]][rc[2]] = cm.matrix[rc[1]][rc[2]]
        /\ placed.bitIdx
            = Cardinality({rc \in Cells(cm.size) : cm.matrix[rc[1]][rc[2]] = NULL})

\* placement has run on a version-10 matrix with its alignment patterns
C4_Witness ==
    /\ pc = "placed" /\ ver.version = 10
    /\ placed.bitIdx > 0
    /\ cm.matrix[28][28] # NULL

\* C5: the mask XOR step changes only cells the template leaves unset; every
\* cell the template fixes has the same value right before and right after
\* the XOR step.
C5_MaskKeepsFixedCells ==
    pc = "masked" =>
        \A rc \in Cells(cm.size) :
            mask.template[rc[1]][rc[2]] # NULL
                => mask.xored[rc[1]][rc[2]] = mask.copied[rc[1]][rc[2]]

\* the XOR step has flipped a cell of a symbol that has alignment patterns
C5_Witness ==
    /\ pc = "masked" /\ ver.version >= 7
    /\ \E rc \in Cells(cm.size) :
            mask.xored[rc[1]][rc[2]] # mask.copied[rc[1]][rc[2]]

\* C6: pickVersion(L) returns the smallest tabulated version whose available
\* bits hold 4 + countBits + 8*L; no smaller tabulated version does.  (When
\* no tabulated version holds L the first half has no subject; the second
\* half is checked there too.)
C6_SmallestFit ==
    pc = "picked" =>
        /\ \A v \in Tabulated :
              v < ver.version => Required(v, dataLen) > Available(v)
        /\ (\E v \in Tabulated : Required(v, dataLen) <= Available(v))
              => Required(ver.version, dataLen) <= Available(ver.version)

\* a version above 1 was selected because the smaller ones do not fit
C6_Witness ==
    /\ pc = "picked" /\ ver.version = 10
    /\ Required(10, dataLen) <= Available(10)
    /\ Required(9, dataLen) > Available(9)

\* C7: version selection is monotonic: a shorter payload never gets a larger
\* version, lengths beyond the version-10 capacity included.
C7_Monotonic ==
    pc = "picked" =>
        \A l \in 0..dataLen : pickVersion(l).version <= ver.version

\* the fallback was taken for a length beyond the capacity
C7_Witness ==
    /\ pc = "picked" /\ dataLen > V10Capacity
    /\ \A v \in Tabulated : Required(v, dataLen) > Available(v)

\* C8: the per-block data-codeword counts of the selected version add up to
\* the total data codewords pickVersion returns as totalDcw.
C8_BlockSumIsTotal ==
    pc = "picked" =>
        /\ SumDataCw(ver.blocks, Len(ver.blocks)) = ver.totalDcw
        /\ Available(ver.version) = 8 * ver.totalDcw

\* part `prefix value` is among the parts buildUpiUri joins
Emitted(prefix, value) ==
    \E k \in 1..Len(parts) : parts[k] = prefix \o value

HasPrefix(part, prefix) ==
    Len(part) >= Len(prefix) /\ SubSeq(part, 1, Len(prefix)) = prefix

KeyPa == <<117, 112, 105, 58, 47, 47, 112, 97, 121, 63, 112, 97, 61>>
KeyPn == <<112, 110, 61>>
KeyAm == <<97, 109, 61>>
KeyCu == <<99, 117, 61>>
KeyTn == <<116, 110, 61>>
KeyMc == <<109, 99, 61>>
KeyTr == <<116, 114, 61>>

\* C9: buildUpiUri percent-encodes the values of pa, pn, tn, mc and tr: each
\* of these keys, when emitted, carries encodeURIComponent of its parameter.
C9_FiveValuesEncoded ==
    pc = "built" =>
        /\ Emitted(KeyPa, encodeURIComponent(params.vpa))
        /\ Truthy(params.payeeName)
              => Emitted(KeyPn, encodeURIComponent(params.payeeName[1]))
        /\ Truthy(params.note)
              => Emitted(KeyTn, encodeURIComponent(params.note[1]))
        /\ Truthy(params.mcc)
              => Emitted(KeyMc, encodeURIComponent(params.mcc[1]))
        /\ Truthy(params.txnRefId)
              => Emitted(KeyTr, encodeURIComponent(params.txnRefId[1]))

\* C10: buildUpiUri emits no am key when the amount is absent, 0 or
\* negative, and always emits the cu key, with INR when no currency is given.
C10_AmountAndCurrency ==
    pc = "built" =>
        /\ (params.amount = Undefined \/ params.amount[1] <= 0)
              => \A k \in 1..Len(parts) : ~HasPrefix(parts[k], KeyAm)
        /\ Cardinality({k \in 1..Len(parts) : HasPrefix(parts[k], KeyCu)}) = 1
        /\ params.currency = Undefined => Emitted(KeyCu, <<73, 78, 82>>)
        /\ params.currency # Undefined => Emitted(KeyCu, params.currency[1])
        /\ uri = Join(parts, 1)

\* an amount of 0 and no currency: cu=INR is there, am is not
C10_Witness ==
    /\ pc = "built"
    /\ params.amount = Some(0) /\ params.currency = Undefined
    /\ Emitted(KeyCu, <<73, 78, 82>>)
    /\ Len(parts) >= 2

\* the string after "upi://pay?" read as pairs: a pair starts at position 11
\* and after every '&', and runs up to the next '&' or the end
Scheme == <<117, 112, 105, 58, 47, 47, 112, 97, 121, 63>>
PairStarts(u) == {Len(Scheme) + 1} \cup {i + 1 : i \in {j \in 11..Len(u) : u[j] = 38}}
PairEnd(u, a) ==
    LET amps == {j \in a..Len(u) : u[j] = 38}
    IN  IF amps = {} THEN Len(u) ELSE (CHOOSE j \in amps : \A k \in amps : j <= k) - 1

\* the place of the pair's key in the order pa, pn, am, cu, tn, mc, tr; 0 if
\* the pair has no '=' or another key
KeyRank(u, a) ==
    LET e == PairEnd(u, a)
        eqs == {j \in a..e : u[j] = 61}
        key == IF eqs = {} THEN <<>>
               ELSE SubSeq(u, a, (CHOOSE j \in eqs : \A k \in eqs : j <= k) - 1)
    IN  CASE key = <<112, 97>> -> 1
          [] key = <<112, 110>> -> 2
          [] key = <<97, 109>> -> 3
          [] key = <<99, 117>> -> 4
          [] key = <<116, 110>> -> 5
          [] key = <<109, 99>> -> 6
          [] key = <<116, 114>> -> 7
          [] OTHER -> 0

RanksOf(u) == {KeyRank(u, a) : a \in PairStarts(u)}

\* C11: the string buildUpiUri returns is "upi://pay?" followed by key=value
\* pairs joined by '&', with keys in the order pa, pn, am, cu, tn, mc, tr; pa
\* and cu are always there, and pn, tn, mc, tr are there exactly when their
\* parameter is a non-empty string.
C11_KeysInFixedOrder ==
    pc = "built" =>
        /\ HasPrefix(uri, Scheme)
        /\ \A a \in PairStarts(uri) : KeyRank(uri, a) >= 1
        /\ \A a, b \in PairStarts(uri) :
              a < b => KeyRank(uri, a) < KeyRank(uri, b)
        /\ 1 \in RanksOf(uri) /\ 4 \in RanksOf(uri)
        /\ (2 \in RanksOf(uri)) <=> Truthy(params.payeeName)
        /\ (5 \in RanksOf(uri)) <=> Truthy(params.note)
        /\ (6 \in RanksOf(uri)) <=> Truthy(params.mcc)
        /\ (7 \in RanksOf(uri)) <=> Truthy(params.txnRefId)

\* C12: encode is deterministic: two calls of generateUpiQrCode with the same
\* parameters end the same way and return the same image, whatever calls
\* came before or between them.
C12_Deterministic ==
    \A i, j \in 1..Len(calls) :
        calls[i].params = calls[j].params
            => /\ calls[i].threw = calls[j].threw
               /\ ~calls[i].threw => calls[i].image = calls[j].image

\* the same call made first and third, around a call that threw
C12_Witness ==
    /\ Len(calls) = 3
    /\ calls[1].params = calls[3].params
    /\ calls[2].params # calls[1].params
    /\ ~calls[1].threw /\ calls[2].threw
    /\ calls[3].image.prefix = "data:image/svg+xml;base64,"

\* the product of a and b in GF(256) by the shift-and-add rule: the partial
\* products of b's bits are added with XOR, and a doubled value that reaches
\* 256 is reduced by the polynomial x^8 + x^4 + x^3 + x^2 + 1 (0x11d = 285)
Double(a) == IF 2 * a >= 256 THEN BitXor(2 * a, 285) ELSE 2 * a
RECURSIVE RefMul(_, _)
RefMul(a, b) ==
    IF b = 0 THEN 0
    ELSE BitXor(IF b % 2 = 1 THEN a ELSE 0, RefMul(Double(a), b \div 2))

\* C13: gfMul(a, 0) = gfMul(0, a) = 0 for every a in 0..255, and
\* gfMul(1, a) = a for every a in 1..255.
C13_ZeroAndOne ==
    pc = "multiplied" =>
        /\ (ga = 0 \/ gb = 0) => prod = 0
        /\ (ga = 1 /\ gb >= 1) => prod = gb

\* 1 times a nonzero a has been computed
C13_Witness ==
    pc = "multiplied" /\ ga = 1 /\ gb = 255 /\ prod = 255

\* C14: gfMul is commutative on 0..255 x 0..255.
C14_Commutative ==
    pc = "multiplied" => prod = gfMul(gb, ga)

\* a product of two different nonzero operands
C14_Witness ==
    pc = "multiplied" /\ ga = 3 /\ gb = 250 /\ prod > 0

\* C20: gfMul(a, b) is the GF(256) product of a and b modulo 0x11d, and lies
\* in 0..255, for every pair in 0..255 x 0..255.
C20_ReferenceProduct ==
    pc = "multiplied" => prod = RefMul(ga, gb) /\ prod \in 0..255

\* a product whose partial products are reduced by the polynomial
C20_Witness ==
    pc = "multiplied" /\ ga = 255 /\ gb = 255 /\ prod = RefMul(255, 255)

\* C15: for every version and every block, rsEncode returns exactly
\* ecCodewordsPerBlock values, each in 0..255, and encodeDataByte returns as
\* many EC blocks as data blocks.
C15_EcBlockShape ==
    pc = "encoded" =>
        /\ Len(enc.ecBlocks) = Len(enc.dataBlocks)
        /\ Len(enc.ecBlocks)
              = VERSION_TABLE[ver.version][4] + VERSION_TABLE[ver.version][6]
        /\ \A k \in 1..Len(enc.ecBlocks) :
              /\ Len(enc.ecBlocks[k]) = VERSION_TABLE[ver.version][3]
              /\ \A i \in 1..Len(enc.ecBlocks[k]) : enc.ecBlocks[k][i] \in 0..255

\* the five blocks of a version-10 payload have been encoded
C15_Witness ==
    /\ pc = "encoded" /\ ver.version = 10
    /\ Len(enc.ecBlocks) = 5
    /\ \E i \in 1..26 : enc.ecBlocks[5][i] > 0

\* the shape the documentation of validateUpiId gives: after trimming,
\* exactly one '@', a username of 1-50 alphanumerics, dots and hyphens, and a
\* handle of 1-50 alphanumerics
DocumentedShape(str) ==
    LET t == Trim(str)
        ats == {i \in 1..Len(t) : t[i] = 64}
    IN  /\ Cardinality(ats) = 1
        /\ LET at == CHOOSE i \in ats : TRUE
           IN  /\ at - 1 \in 1..50
               /\ Len(t) - at \in 1..50
               /\ \A i \in 1..(at - 1) :
                     IsAlnum(t[i]) \/ t[i] = 46 \/ t[i] = 45
               /\ \A i \in (at + 1)..Len(t) : IsAlnum(t[i])

\* C16: validateUpiId returns valid = true exactly for the strings of the
\* documented shape; every other string gets valid = false and a message.
C16_ValidExactlyDocumented ==
    pc = "validated" =>
        /\ verdict.valid <=> DocumentedShape(upiId)
        /\ ~verdict.valid => "message" \in DOMAIN verdict

\* the cells the reserve loop of createMatrix zeroes as format placeholders:
\* unset when the loop starts, set when createMatrix returns
ReservedCells(version) ==
    LET size == version * 4 + 17
        before == PatternMatrix(version)
        after == createMatrix(version).matrix
    IN  IF before = before /\ after = after
        THEN {rc \in Cells(size) :
                before[rc[1]][rc[2]] = NULL /\ after[rc[1]][rc[2]] # NULL}
        ELSE {}

\* the cells the four format loops of applyMask assign
WrittenCells(size) ==
    {<<FormatWrites(size)[k][1], FormatWrites(size)[k][2]>> :
        k \in 1..Len(FormatWrites(size))}

\* C17: the cells the format writer of applyMask writes are exactly the
\* cells createMatrix reserved as format placeholders, for every version.
C17_FormatCellsAreReserved ==
    pc = "masked" => WrittenCells(cm.size) = ReservedCells(ver.version)

\* 2^n
RECURSIVE Pow2(_)
Pow2(n) == IF n = 0 THEN 1 ELSE 2 * Pow2(n - 1)

\* bit i (0 = most significant) of the w-bit number n
BitOf(n, w, i) == (n \div Pow2(w - 1 - i)) % 2

\* the j-th codeword (0-based) of the data blocks taken one after the other
RECURSIVE CodewordAt(_, _, _)
CodewordAt(dataBlocks, k, j) ==
    IF j < Len(dataBlocks[k]) THEN dataBlocks[k][j + 1]
    ELSE CodewordAt(dataBlocks, k + 1, j - Len(dataBlocks[k]))

\* bit p (0-based) of the stream the claim describes for payload d and a
\* version with count field of cb bits and total data codewords
StreamBit(d, cb, total, p) ==
    LET dataEnd == 4 + cb + 8 * Len(d)
        term == IF 8 * total - dataEnd < 4 THEN 8 * total - dataEnd ELSE 4
        padStart == 8 * ((dataEnd + term + 7) \div 8)
    IN  IF p < 4 THEN <<0, 1, 0, 0>>[p + 1]
        ELSE IF p < 4 + cb THEN BitOf(Len(d), cb, p - 4)
        ELSE IF p < dataEnd THEN BitOf(d[((p - 4 - cb) \div 8) + 1], 8, (p - 4 - cb) % 8)
        ELSE IF p < padStart THEN 0
        ELSE BitOf(IF ((p - padStart) \div 8) % 2 = 0 THEN 236 ELSE 17,
                   8, (p - padStart) % 8)

\* the payload fits the selected version and all its characters are bytes
FitsInBytes ==
    /\ Required(ver.version, dataLen) <= Available(ver.version)
    /\ \A i \in 1..Len(data) : data[i] <= 255

\* C18: for a payload that fits the selected version and has only characters
\* with code <= 255, the data codewords are as many as the per-block counts
\* add up to and read: 0100, the length in 8 or 16 bits, each character as 8
\* bits, zero bits for terminator and alignment, then pad bytes 0xEC, 0x11
\* alternating; block k is the k-th consecutive slice of its tabulated length.
C18_CodewordLayout ==
    (pc = "encoded" /\ FitsInBytes) =>
        LET v == ver.version
            total == Available(v) \div 8
            cb == IF v <= 9 THEN 8 ELSE 16
        IN  /\ Len(enc.dataBlocks) = VERSION_TABLE[v][4] + VERSION_TABLE[v][6]
            /\ \A k \in 1..Len(enc.dataBlocks) :
                  Len(enc.dataBlocks[k])
                      = (IF k <= VERSION_TABLE[v][4] THEN VERSION_TABLE[v][5]
                         ELSE VERSION_TABLE[v][7])
            /\ \A p \in 0..(8 * total - 1) :
                  BitOf(CodewordAt(enc.dataBlocks, 1, p \div 8), 8, p % 8)
                      = StreamBit(data, cb, total, p)

\* a version-10 payload of bytes with pad bytes after it
C18_Witness ==
    /\ pc = "encoded" /\ FitsInBytes
    /\ ver.version = 10 /\ dataLen = 200
    /\ enc.dataBlocks[5][42] = 236 /\ enc.dataBlocks[5][43] = 17

\* alpha^e for alpha = 2: the square of alpha^(e div 2), doubled for an odd e
RECURSIVE AlphaPow(_)
AlphaPow(e) ==
    IF e = 0 THEN 1
    ELSE CHOOSE v \in {IF e % 2 = 1 THEN Double(sq) ELSE sq :
                          sq \in {RefMul(h, h) : h \in {AlphaPow(e \div 2)}}} :
             TRUE

\* alpha^e for e in 0..254 (alpha^255 = 1)
AlphaTable == Eager([e \in 0..254 |-> AlphaPow(e)])

\* the shift-and-XOR product of every pair of field elements
RefProduct == Eager([a \in 0..255 |-> Eager([b \in 0..255 |-> RefMul(a, b)])])

\* the value at alpha^i of the polynomial with the coefficients cw, highest
\* power first: the XOR of the terms cw[j] * alpha^(i * (Len(cw) - j)) for j
\* in lo..hi
RECURSIVE PolyEval(_, _, _, _)
PolyEval(cw, i, lo, hi) ==
    IF lo > hi THEN 0
    ELSE IF lo = hi
    THEN RefProduct[cw[lo]][AlphaTable[(i * (Len(cw) - lo)) % 255]]
    ELSE CHOOSE v \in {BitXor(l, r) :
                          l \in {PolyEval(cw, i, lo, (lo + hi) \div 2)},
                          r \in {PolyEval(cw, i, ((lo + hi) \div 2) + 1, hi)}} :
             TRUE

\* C19: for every block, the polynomial of the data codewords followed by
\* the EC codewords of rsEncode is divisible by the generator polynomial: its
\* value at alpha^i is 0 for every i in 0..ecLen-1.
C19_RemainderDivides ==
    pc = "encoded" =>
        \A k \in 1..Len(enc.dataBlocks) :
            \A cw \in {enc.dataBlocks[k] \o enc.ecBlocks[k]} :
                \A i \in 0..(Len(enc.ecBlocks[k]) - 1) :
                    PolyEval(cw, i, 1, Len(cw)) = 0

\* blocks of a version-10 payload with nonzero EC codewords
C19_Witness ==
    /\ pc = "encoded" /\ ver.version = 10 /\ dataLen = 212
    /\ \E i \in 1..26 : enc.ecBlocks[1][i] > 0
    /\ Len(enc.ecBlocks[1]) = 26 /\ Len(enc.dataBlocks[1]) = 43

\* the codewords of the blocks k..1 with an index below i
RECURSIVE RoundsBefore(_, _, _)
RoundsBefore(blocks, i, k) ==
    IF k = 0 THEN 0
    ELSE Min(Len(blocks[k]), i) + RoundsBefore(blocks, i, k - 1)

\* the number of codewords of all blocks
TotalLen(blocks) == RoundsBefore(blocks, MaxLenOf(blocks, 1), Len(blocks))

\* the place (from 1) of index i (from 0) of block k in the round-robin
\* order: after every codeword of a smaller index, and after the codewords
\* of the same index of the blocks before k
RoundRobinPlace(blocks, k, i) ==
    RoundsBefore(blocks, i, Len(blocks))
        + Cardinality({j \in 1..(k - 1) : Len(blocks[j]) > i}) + 1

\* the (block, index) pairs of a list of blocks
CodewordSites(blocks) ==
    {<<k, i>> \in (1..Len(blocks)) \X (0..(MaxLenOf(blocks, 1) - 1)) :
        i < Len(blocks[k])}

\* C21: interleave outputs the data codewords round-robin across the data
\* blocks in block order, then the EC codewords the same way; the output is
\* as long as all data and EC codewords together and every codeword of every
\* block appears exactly once (each at a place of its own).
C21_RoundRobinOrder ==
    pc = "interleaved" =>
        /\ Len(stream) = TotalLen(enc.dataBlocks) + TotalLen(enc.ecBlocks)
        /\ \A s \in CodewordSites(enc.dataBlocks) :
              stream[RoundRobinPlace(enc.dataBlocks, s[1], s[2])]
                  = enc.dataBlocks[s[1]][s[2] + 1]
        /\ \A s \in CodewordSites(enc.ecBlocks) :
              stream[TotalLen(enc.dataBlocks)
                        + RoundRobinPlace(enc.ecBlocks, s[1], s[2])]
                  = enc.ecBlocks[s[1]][s[2] + 1]
        /\ \A s, t \in CodewordSites(enc.dataBlocks) :
              s # t => RoundRobinPlace(enc.dataBlocks, s[1], s[2])
                          # RoundRobinPlace(enc.dataBlocks, t[1], t[2])
        /\ \A s, t \in CodewordSites(enc.ecBlocks) :
              s # t => RoundRobinPlace(enc.ecBlocks, s[1], s[2])
                          # RoundRobinPlace(enc.ecBlocks, t[1], t[2])

\* three data blocks of lengths 1, 3, 2 have been interleaved: the later
\* rounds skip the blocks that have ended
C21_Witness ==
    /\ pc = "interleaved"
    /\ Len(enc.dataBlocks) = 3
    /\ Len(enc.dataBlocks[1]) = 1 /\ Len(enc.dataBlocks[2]) = 3
    /\ Len(enc.dataBlocks[3]) = 2
    /\ Len(stream) > 6

\* the column pairs of a symbol of the given size, right to left: the right
\* columns size-1, size-3, ..., 8 and then 5, 3, 1
PairCount(size) == ((size - 7) \div 2) + 3
PairColumn(size, j) ==
    IF j <= (size - 7) \div 2 THEN size - 1 - 2 * (j - 1)
    ELSE 5 - 2 * (j - ((size - 7) \div 2) - 1)

\* the rank (from 0) of a row in the scan of the j-th pair: from the bottom
\* for j = 1, 3, ..., from the top for j = 2, 4, ...
RowRank(size, j, row) == IF j % 2 = 1 THEN size - 1 - row ELSE row

\* C22: placeData visits the column pairs in the order (size-1,size-2),
\* (size-3,size-4), ..., (8,7), (5,4), (3,2), (1,0) for every version
\* 1-10: column 6 is never visited, the first pair is scanned from the bottom
\* row to the top row, and the direction flips on every following pair.
C22_PairOrder ==
    pc = "placed" =>
        /\ placed.visited = 2 * cm.size * PairCount(cm.size)
        /\ \A row \in 0..(cm.size - 1) : placed.order[row][6] = 0
        /\ \A j \in 1..PairCount(cm.size) :
              \A row \in 0..(cm.size - 1) :
                 \A cc \in {PairColumn(cm.size, j), PairColumn(cm.size, j) - 1} :
                    /\ placed.order[row][cc] > 0
                    /\ (placed.order[row][cc] - 1) \div 2
                          = (j - 1) * cm.size + RowRank(cm.size, j, row)

\* a version-10 symbol has been filled: the scan began in the bottom right
\* corner and ended in the bottom left one, after 28 pairs
C22_Witness ==
    /\ pc = "placed" /\ ver.version = 10
    /\ placed.order[56][56] \in {1, 2}
    /\ placed.order[56][0] \in {placed.visited - 1, placed.visited}
    /\ placed.order[0][5] > placed.order[0][8]

\* C23 as stated: within a column pair, for each row placeData visits the
\* left column of the pair first and then the right column.
C23_LeftThenRight ==
    pc = "placed" =>
        \A j \in 1..PairCount(cm.size) :
            \A row \in 0..(cm.size - 1) :
                placed.order[row][PairColumn(cm.size, j) - 1]
                    < placed.order[row][PairColumn(cm.size, j)]

\* C23: within a column pair, for each row placeData visits the right
\* column of the pair first and the left column right after it, and a cell
\* the matrix builder fixed is skipped: it is not written and keeps its
\* value.
C23_RightThenLeft ==
    pc = "placed" =>
        /\ \A j \in 1..PairCount(cm.size) :
              \A row \in 0..(cm.size - 1) :
                 /\ placed.order[row][PairColumn(cm.size, j)] > 0
                 /\ placed.order[row][PairColumn(cm.size, j) - 1]
                       = placed.order[row][PairColumn(cm.size, j)] + 1
        /\ \A rc \in Cells(cm.size) :
              cm.matrix[rc[1]][rc[2]] # NULL =>
                 /\ placed.writes[rc[1]][rc[2]] = 0
                 /\ placed.matrix[rc[1]][rc[2]] = cm.matrix[rc[1]][rc[2]]

\* a row of a version-2 symbol where the right column of the pair (16, 15)
\* is part of the alignment pattern and the left column takes a bit
C23_Witness ==
    /\ pc = "placed" /\ ver.version = 2
    /\ cm.matrix[18][16] # NULL /\ cm.matrix[18][15] = NULL
    /\ placed.writes[18][16] = 0 /\ placed.writes[18][15] = 1
    /\ placed.order[18][15] = placed.order[18][16] + 1

\* the centres of the version's cross product whose cell is unset in the
\* matrix base
DrawnCentres(version, base) ==
    {rc \in {<<ALIGNMENT_POSITIONS[version][i], ALIGNMENT_POSITIONS[version][j]>> :
                i, j \in 1..Len(ALIGNMENT_POSITIONS[version])} :
        base[rc[1]][rc[2]] = NULL}

\* the larger of the row and column distances of two cells
Chebyshev(a, b) ==
    IF Abs(a[1] - b[1]) >= Abs(a[2] - b[2]) THEN Abs(a[1] - b[1])
    ELSE Abs(a[2] - b[2])

\* C24: for every version 2-10, createMatrix draws a 5x5 alignment pattern
\* (black ring, white ring, black centre) centred at exactly those pairs of
\* the cross product of the version's position list whose centre cell is
\* still unset when reached, and no cell already fixed as finder, separator,
\* timing or dark module is changed by it.
C24_AlignmentPatterns ==
    (pc = "matrix" /\ ver.version >= 2) =>
        \A base \in {BaseMatrix(ver.version)} :
            \A centres \in {DrawnCentres(ver.version, base)} :
                \A rc \in Cells(cm.size) :
                    /\ base[rc[1]][rc[2]] # NULL
                          => cm.matrix[rc[1]][rc[2]] = base[rc[1]][rc[2]]
                    /\ \A ce \in centres :
                          Chebyshev(rc, ce) <= 2 =>
                             /\ base[rc[1]][rc[2]] = NULL
                             /\ cm.matrix[rc[1]][rc[2]]
                                   = (IF Chebyshev(rc, ce) = 1 THEN 0 ELSE 1)
                    /\ (base[rc[1]][rc[2]] = NULL
                           /\ cm.matrix[rc[1]][rc[2]] # NULL
                           /\ rc[1] # 8 /\ rc[2] # 8)
                          => \E ce \in centres : Chebyshev(rc, ce) <= 2

\* a version-7 matrix: the pattern centred at (22, 22) is drawn, the pair
\* (6, 22), whose centre is a timing cell, is passed over
C24_Witness ==
    /\ pc = "matrix" /\ ver.version = 7
    /\ cm.matrix[22][22] = 1 /\ cm.matrix[21][22] = 0 /\ cm.matrix[20][22] = 1
    /\ cm.matrix[6][22] = 1 /\ cm.matrix[4][22] = NULL /\ cm.matrix[5][21] = NULL

\* C25: for every cell the template leaves unset, the final matrix value is
\* the value placed by placeData XOR 1 when (row + col) mod 2 = 0 and the
\* placed value unchanged when (row + col) mod 2 = 1, unless the format
\* writer overwrites that cell afterwards.
C25_MaskZeroOnDataCells ==
    pc = "masked" =>
        \A written \in {WrittenCells(cm.size)} :
            \A rc \in Cells(cm.size) :
                (mask.template[rc[1]][rc[2]] = NULL /\ rc \notin written) =>
                    /\ placed.matrix[rc[1]][rc[2]] \in {0, 1}
                    /\ mask.result[rc[1]][rc[2]]
                          = (IF (rc[1] + rc[2]) % 2 = 0
                             THEN 1 - placed.matrix[rc[1]][rc[2]]
                             ELSE placed.matrix[rc[1]][rc[2]])

\* a masked version-10 symbol: the data cells of the bottom right corner
\* hold placed bits of both values, flipped where row + col is even
C25_Witness ==
    /\ pc = "masked" /\ ver.version = 10
    /\ mask.template[56][56] = NULL /\ mask.template[56][55] = NULL
    /\ mask.result[56][56] # placed.matrix[56][56]
    /\ mask.result[56][55] = placed.matrix[56][55]
    /\ \E rc \in Cells(cm.size) :
          /\ mask.template[rc[1]][rc[2]] = NULL
          /\ placed.matrix[rc[1]][rc[2]] = 1 /\ mask.result[rc[1]][rc[2]] = 0

\* the writes of the format loops that put bit k of the constant into one of
\* the given cells
WritesOfBit(size, k, cells) ==
    {n \in 1..Len(FormatWrites(size)) :
        /\ FormatWrites(size)[n][4] = k
        /\ <<FormatWrites(size)[n][1], FormatWrites(size)[n][2]>> \in cells}

\* C26: in the final matrix, each bit k (k = 0..14) of the format constant
\* 101010000010010 is written to exactly one cell of the reserved strips
\* flanking the top-left finder and to exactly one cell of the reserved
\* strips at the right and bottom edges, so both copies carry the complete
\* constant, for every version 1-10.
C26_BothCopiesComplete ==
    pc = "masked" =>
        \A reserved \in {ReservedCells(ver.version)} :
            \A k \in 0..14 :
                /\ \E rc \in {x \in reserved : x[1] <= 8 /\ x[2] <= 8} :
                      /\ WritesOfBit(cm.size, k, {x \in reserved :
                                                    x[1] <= 8 /\ x[2] <= 8})
                            = WritesOfBit(cm.size, k, {rc})
                      /\ Cardinality(WritesOfBit(cm.size, k, {rc})) = 1
                      /\ mask.result[rc[1]][rc[2]] = formatBits[k + 1]
                /\ \E rc \in {x \in reserved : x[1] > 8 \/ x[2] > 8} :
                      /\ WritesOfBit(cm.size, k, {x \in reserved :
                                                    x[1] > 8 \/ x[2] > 8})
                            = WritesOfBit(cm.size, k, {rc})
                      /\ Cardinality(WritesOfBit(cm.size, k, {rc})) = 1
                      /\ mask.result[rc[1]][rc[2]] = formatBits[k + 1]

\* C27: when the interleaved bitstream is used up before every unset cell
\* is filled, placeData writes 0 into every remaining unset cell, for every
\* version 1-10.
C27_ZeroAfterStreamEnd ==
    pc = "placed" =>
        \A rc \in Cells(cm.size) :
            (cm.matrix[rc[1]][rc[2]] = NULL
                /\ placed.bitAt[rc[1]][rc[2]] >= 8 * Len(stream))
                => placed.matrix[rc[1]][rc[2]] = 0

\* a version-2 symbol: 359 unset cells for 352 bits, the last seven cells
\* are filled after the end of the stream
C27_Witness ==
    /\ pc = "placed" /\ ver.version = 2
    /\ placed.bitIdx = 8 * Len(stream) + 7
    /\ Cardinality({rc \in Cells(cm.size) :
                        placed.bitAt[rc[1]][rc[2]] >= 8 * Len(stream)}) = 7

\* C28 as stated: every invocation builds GF tables of its own, so
\* initGaloisField has run during every invocation that has ended.
C28_TablesPerInvocation ==
    \A k \in 1..Len(calls) :
        calls[k].galoisRuns
            > (IF k = 1 THEN LoadRuns ELSE calls[k - 1].galoisRuns)

\* C28: every invocation starts with locals of its own (no matrix, payload
\* or codewords of an earlier invocation); the GF exponent/log tables are
\* built once, when the module is loaded, and every invocation reads those
\* same tables, which no invocation modifies.
C28_OwnMatrixSharedTables ==
    /\ galoisRuns = LoadRuns
    /\ expTable = EXP_TABLE /\ logTable = LOG_TABLE
    /\ \A k \in 1..Len(calls) : calls[k].galoisRuns = LoadRuns
    /\ pc = "call" =>
          /\ cm = None /\ placed = None /\ mask = None
          /\ enc = None /\ stream = None /\ svg = None /\ out = None

\* a third invocation is entered after one that returned an image and one
\* that threw
C28_Witness ==
    /\ pc = "call" /\ Len(calls) = 2
    /\ ~calls[1].threw /\ calls[2].threw
    /\ calls[1].image # None

\* C29: for every version 1-10, createMatrix leaves at least
\* 8 * (total data codewords + number of blocks * EC codewords per block)
\* cells unset, so placeData places every bit of the interleaved codeword
\* stream: each bit, in stream order, is the value of a cell of its own.
C29_RoomForEveryBit ==
    pc = "placed" =>
        /\ Cardinality({rc \in Cells(cm.size) : cm.matrix[rc[1]][rc[2]] = NULL})
              >= 8 * (ver.totalDcw + Len(ver.blocks) * ver.ecCwPerBlock)
        /\ Len(stream) <= ver.totalDcw + Len(ver.blocks) * ver.ecCwPerBlock
        /\ \A filled \in {{rc \in Cells(cm.size) :
                              /\ placed.bitAt[rc[1]][rc[2]] >= 0
                              /\ placed.bitAt[rc[1]][rc[2]] < 8 * Len(stream)}} :
              /\ {placed.bitAt[rc[1]][rc[2]] : rc \in filled}
                    = 0..(8 * Len(stream) - 1)
              /\ \A rc \in filled :
                    placed.matrix[rc[1]][rc[2]]
                        = BitOf(stream[(placed.bitAt[rc[1]][rc[2]] \div 8) + 1],
                                8, placed.bitAt[rc[1]][rc[2]] % 8)

\* a version-1 symbol, where the 208 unset cells take exactly the 208 bits,
\* the last of them the last bit of the last EC codeword
C29_Witness ==
    /\ pc = "placed" /\ ver.version = 1
    /\ Len(stream) = 26 /\ placed.bitIdx = 208
    /\ \E rc \in Cells(cm.size) : placed.bitAt[rc[1]][rc[2]] = 207

\* C30: for all parameter values, every character of the string buildUpiUri
\* returns has a code <= 255, so each payload character contributes exactly
\* 8 bits to the encoder's bitstream.
C30_EveryCharIsOneByte ==
    pc = "built" =>
        \A i \in 1..Len(uri) :
            /\ uri[i] <= 255
            /\ Len(ToBits(uri[i], 8)) = 8
====
